---- MODULE Spec2Model ----
(***************************************************************************)
(* A model of the parser combinator library of src/src/index.ts and of    *)
(* the Result type of src/src/result.ts.                                   *)
(*                                                                         *)
(* A JavaScript string is a sequence of one-character TLA+ strings; a     *)
(* character is a string of length one, as in the source.  A Parser<A> is *)
(* the closure makeParser wraps: it is represented by the term that built *)
(* it (<<"pair", a, b>>, <<"matchLiteral", lit>>, ...) and parse(p, s) is *)
(* the call p.parse(s), which runs the body of that closure.               *)
(***************************************************************************)
EXTENDS Integers, Sequences, FiniteSets, TLC

VARIABLES parser, input, result, pc, next, results

vars == <<parser, input, result, pc, next, results>>

-----------------------------------------------------------------------------
(* Characters and strings *)

\* The UTF-16 code unit of each character the model uses (charCodeAt(0)).
CharCode(c) ==
  CASE c = " "  -> 32
    [] c = "\"" -> 34
    [] c = "&"  -> 38
    [] c = "/"  -> 47
    [] c = "0"  -> 48
    [] c = "<"  -> 60
    [] c = "="  -> 61
    [] c = ">"  -> 62
    [] c = "Z"  -> 90
    [] c = "a"  -> 97
    [] c = "b"  -> 98

Min(a, b) == IF a < b THEN a ELSE b

\* String.prototype.slice(from) and slice(0, to) for non-negative arguments.
sliceFrom(str, from) == SubSeq(str, Min(from, Len(str)) + 1, Len(str))

sliceTo(str, to) == SubSeq(str, 1, Min(to, Len(str)))

\* The white space String.prototype.trim removes, among the model's characters.
isWhiteSpaceCode(code) == code \in {9, 10, 11, 12, 13, 32, 160}

RECURSIVE trimStart(_)
trimStart(str) ==
  IF str # <<>> /\ isWhiteSpaceCode(CharCode(Head(str)))
    THEN trimStart(Tail(str))
    ELSE str

RECURSIVE trimEnd(_)
trimEnd(str) ==
  IF str # <<>> /\ isWhiteSpaceCode(CharCode(str[Len(str)]))
    THEN trimEnd(SubSeq(str, 1, Len(str) - 1))
    ELSE str

trim(str) == trimEnd(trimStart(str))

\* Array.prototype.join("") of an array of strings.
RECURSIVE join(_)
join(as) == IF as = <<>> THEN <<>> ELSE Head(as) \o join(Tail(as))

-----------------------------------------------------------------------------
(* result.ts *)

failure(value) == [type |-> "Failure", value |-> value]

success(value) == [type |-> "Success", value |-> value]

isFailure(value) == value.type = "Failure"

isSuccess(value) == value.type = "Success"

-----------------------------------------------------------------------------
(* index.ts: splitString, and the functions handed to pred, map and andThen *)

\* [string | null, string]: the match is <<"some", m>> or <<"null">>.
splitString(str, length) ==
  LET match == sliceTo(str, length)
      actualMatch == IF Len(match) >= length THEN <<"some", match>> ELSE <<"null">>
      rest == sliceFrom(str, length)
  IN  <<actualMatch, rest>>

\* "".charCodeAt(0) is NaN, and every comparison with NaN is false.
isAlphaNumeric(char) ==
  IF char = <<>>
    THEN FALSE
    ELSE LET code == CharCode(char[1])
         IN  \/ (code > 47 /\ code < 58)
             \/ (code > 64 /\ code < 91)
             \/ (code > 96 /\ code < 123)

\* The predicates handed to pred, by name:
\*   isAlphaNumeric (line 117), isBlank (line 121: a.trim() === ""),
\*   notDelim (line 136), nameIs (line 206), and the constant predicates.
applyPredicate(predicate, a) ==
  CASE predicate[1] = "isAlphaNumeric" -> isAlphaNumeric(a)
    [] predicate[1] = "isBlank"        -> trim(a) = <<>>
    [] predicate[1] = "notDelim"       -> a # predicate[2] /\ a # predicate[3]
    [] predicate[1] = "nameIs"         -> a = predicate[2]
    [] predicate[1] = "const"          -> predicate[2]

\* The functions handed to map, by name:
\*   fst (line 43), snd (line 48), join (lines 119, 140),
\*   toElement (lines 187-191, 196-200), withChildren (lines 212-215).
applyFunction(f, a) ==
  CASE f[1] = "fst"          -> a[1]
    [] f[1] = "snd"          -> a[2]
    [] f[1] = "join"         -> join(a)
    [] f[1] = "toElement"    -> [name |-> a[1], attributes |-> a[2], children |-> <<>>]
    [] f[1] = "withChildren" -> [f[2] EXCEPT !.children = a]

-----------------------------------------------------------------------------
(* index.ts: the parsers, as the terms that build them *)

matchLiteral(lit) == <<"matchLiteral", lit>>

anyChar == <<"anyChar">>

pred(parserA, predicate) == <<"pred", parserA, predicate>>

map(parserA, f) == <<"map", parserA, f>>

pair(parserA, parserB) == <<"pair", parserA, parserB>>

left(parserA, parserB) == map(pair(parserA, parserB), <<"fst">>)

right(parserA, parserB) == map(pair(parserA, parserB), <<"snd">>)

oneOrMore(parserA) == <<"oneOrMore", parserA>>

zeroOrMore(parserA) == <<"zeroOrMore", parserA>>

either(parser1, parser2) == <<"either", parser1, parser2>>

andThen(parserA, thenParserB) == <<"andThen", parserA, thenParserB>>

alphaNumeric == pred(anyChar, <<"isAlphaNumeric">>)

identifier == map(oneOrMore(alphaNumeric), <<"join">>)

whitespace == pred(anyChar, <<"isBlank">>)

space0 == zeroOrMore(whitespace)

space1 == oneOrMore(whitespace)

stringBetween(startChar, endChar) ==
  map(
    right(
      matchLiteral(startChar),
      left(
        zeroOrMore(pred(anyChar, <<"notDelim", startChar, endChar>>)),
        matchLiteral(endChar))),
    <<"join">>)

quotedString == stringBetween(<<"\"">>, <<"\"">>)

attributePair == pair(identifier, right(matchLiteral(<<"=">>), quotedString))

attributes == zeroOrMore(right(space1, attributePair))

elementStart == right(matchLiteral(<<"<">>), pair(identifier, attributes))

singleElement == map(left(elementStart, matchLiteral(<<"/", ">">>)), <<"toElement">>)

openElement == map(left(elementStart, matchLiteral(<<">">>)), <<"toElement">>)

\* closeElement with pred around the identifier alone.
closeElementChecksNameOnly(expectedName) ==
  right(
    matchLiteral(<<"<", "/">>),
    left(pred(identifier, <<"nameIs", expectedName>>), matchLiteral(<<">">>)))

closeElement(expectedName) ==
  pred(
    right(matchLiteral(<<"<", "/">>), left(identifier, matchLiteral(<<">">>))),
    <<"nameIs", expectedName>>)

\* element is a function of no arguments in the source, so that parentElement
\* can refer to it: the term stands for the call element().
element == <<"element">>

\* The continuations handed to andThen, by name:
\*   parentCont (lines 211-215), and literalOf, a caller's continuation
\*   (a) => matchLiteral(a) that expects the parsed string once more.
applyContinuation(thenParserB, a) ==
  CASE thenParserB[1] = "parentCont" ->
         map(left(zeroOrMore(element), closeElement(a.name)), <<"withChildren", a>>)
    [] thenParserB[1] = "literalOf" -> matchLiteral(a)

parentElement == andThen(openElement, <<"parentCont">>)

-----------------------------------------------------------------------------
(* index.ts: parser.parse(input), the body of each makeParser closure *)

RECURSIVE parse(_, _)

parseMap(parserA, f, inp) ==
  LET r == parse(parserA, inp)
  IN  IF isFailure(r)
        THEN r
        ELSE success(<<r.value[1], applyFunction(f, r.value[2])>>)

\* pair that rolls back: b's failure reported at the input of the pair.
parsePairRollback(parserA, parserB, inp) ==
  LET resultA == parse(parserA, inp)
  IN  IF isFailure(resultA)
        THEN resultA
        ELSE LET resultB == parse(parserB, resultA.value[1])
             IN  IF isFailure(resultB)
                   THEN failure(inp)
                   ELSE success(<<resultB.value[1], <<resultA.value[2], resultB.value[2]>>>>)

parsePair(parserA, parserB, inp) ==
  LET resultA == parse(parserA, inp)
  IN  IF isFailure(resultA)
        THEN resultA
        ELSE LET rest == resultA.value[1]
                 a == resultA.value[2]
                 resultB == parse(parserB, rest)
             IN  IF isFailure(resultB)
                   THEN resultB
                   ELSE success(<<resultB.value[1], <<a, resultB.value[2]>>>>)

RECURSIVE whileLoop(_, _, _)

\* The loop with results.unshift in place of results.push.
whileLoopPrepends(parserA, nxt, acc) ==
  LET parsed == parse(parserA, nxt)
  IN  IF isSuccess(parsed)
        THEN whileLoop(parserA, parsed.value[1], <<parsed.value[2]>> \o acc)
        ELSE success(<<nxt, acc>>)

\* The while (true) loop of oneOrMore (lines 58-67) and zeroOrMore (74-83).
whileLoop(parserA, nxt, acc) ==
  LET parsed == parse(parserA, nxt)
  IN  IF isSuccess(parsed)
        THEN whileLoop(parserA, parsed.value[1], Append(acc, parsed.value[2]))
        ELSE success(<<nxt, acc>>)

parseOneOrMore(parserA, inp) ==
  LET res == parse(parserA, inp)
  IN  IF isFailure(res)
        THEN res
        ELSE whileLoop(parserA, res.value[1], <<res.value[2]>>)

parseZeroOrMore(parserA, inp) == whileLoop(parserA, inp, <<>>)

parseAnyChar(inp) ==
  LET split == splitString(inp, 1)
      match == split[1]
      rest == split[2]
  IN  IF match # <<"null">> THEN success(<<rest, match[2]>>) ELSE failure(inp)

\* pred that fails where the inner parser stopped.
parsePredKeepsConsumption(parserA, predicate, inp) ==
  LET r == parse(parserA, inp)
  IN  IF isFailure(r)
        THEN r
        ELSE IF applyPredicate(predicate, r.value[2])
               THEN success(<<r.value[1], r.value[2]>>)
               ELSE failure(r.value[1])

parsePred(parserA, predicate, inp) ==
  LET r == parse(parserA, inp)
  IN  IF isFailure(r)
        THEN r
        ELSE IF applyPredicate(predicate, r.value[2])
               THEN success(<<r.value[1], r.value[2]>>)
               ELSE failure(inp)

\* matchLiteral that fails with the rest of the split.
parseMatchLiteralFailsAtRest(lit, inp) ==
  LET split == splitString(inp, Len(lit))
  IN  IF split[1] = <<"some", lit>> THEN success(<<split[2], lit>>) ELSE failure(split[2])

\* matchLiteral that returns its input as the remaining input.
parseMatchLiteralKeepsInput(lit, inp) ==
  LET split == splitString(inp, Len(lit))
  IN  IF split[1] = <<"some", lit>> THEN success(<<inp, lit>>) ELSE failure(inp)

parseMatchLiteral(lit, inp) ==
  LET split == splitString(inp, Len(lit))
      match == split[1]
      rest == split[2]
  IN  IF match = <<"some", lit>> THEN success(<<rest, lit>>) ELSE failure(inp)

\* either that retries from where the first parser failed.
parseEitherOnRemainder(parser1, parser2, inp) ==
  LET resultA == parse(parser1, inp)
  IN  IF isSuccess(resultA) THEN resultA ELSE parse(parser2, resultA.value)

parseEither(parser1, parser2, inp) ==
  LET resultA == parse(parser1, inp)
  IN  IF isSuccess(resultA) THEN resultA ELSE parse(parser2, inp)

parseAndThen(parserA, thenParserB, inp) ==
  LET r == parse(parserA, inp)
  IN  IF isFailure(r)
        THEN r
        ELSE parse(applyContinuation(thenParserB, r.value[2]), r.value[1])

parse(p, inp) ==
  CASE p[1] = "map"          -> parseMap(p[2], p[3], inp)
    [] p[1] = "pair"         -> parsePair(p[2], p[3], inp)
    [] p[1] = "oneOrMore"    -> parseOneOrMore(p[2], inp)
    [] p[1] = "zeroOrMore"   -> parseZeroOrMore(p[2], inp)
    [] p[1] = "anyChar"      -> parseAnyChar(inp)
    [] p[1] = "pred"         -> parsePred(p[2], p[3], inp)
    [] p[1] = "matchLiteral" -> parseMatchLiteral(p[2], inp)
    [] p[1] = "either"       -> parseEither(p[2], p[3], inp)
    [] p[1] = "andThen"      -> parseAndThen(p[2], p[3], inp)
    [] p[1] = "element"      -> parseEither(singleElement, parentElement, inp)

runParser(p, inp) == parse(p, inp)

-----------------------------------------------------------------------------
(* The inputs and parsers the model runs *)

\* Bounds.
MaxLen == 3

MaxLitLen == 2

MaxAttrs == 2

MaxNodes == 3

RECURSIVE StringsOver(_, _)
StringsOver(chars, n) ==
  IF n = 0
    THEN {<<>>}
    ELSE LET shorter == StringsOver(chars, n - 1)
         IN  shorter \cup {Append(str, c) : str \in shorter, c \in chars}

Prefixes(str) == {SubSeq(str, 1, n) : n \in 0..Len(str)}

Suffixes(str) == {SubSeq(str, n, Len(str)) : n \in 1..(Len(str) + 1)}

\* Short inputs over a few characters, and the literals handed to matchLiteral.
SmallStrings == StringsOver({"a", " ", "<", ">"}, MaxLen)

Lits == StringsOver({"a", " "}, MaxLitLen)

\* Documents of the markup grammar: a tree of nodes, each written either as a
\* self-closing tag or as an open tag, its children and a close tag.
Names == {<<"a">>, <<"a", "b">>}

AttrPairs == {<<<<"a">>, <<>>>>, <<<<"b", "0">>, <<"/", ">", " ">>>>}

Gaps == {<<" ">>, <<" ", " ">>}

RECURSIVE AttrLists(_)
AttrLists(n) ==
  IF n = 0
    THEN {<<>>}
    ELSE LET shorter == AttrLists(n - 1)
         IN  shorter \cup {Append(as, kv) : as \in shorter, kv \in AttrPairs}

Node(name, attrs, gap, selfClosing, children) ==
  [name |-> name, attributes |-> attrs, gap |-> gap,
   selfClosing |-> selfClosing, children |-> children]

NestHeaders == {<<<<"a">>, <<>>>>, <<<<"a", "b">>, <<<<<<"a">>, <<>>>>>>>>}

RECURSIVE TreesOf(_)
RECURSIVE ForestsOf(_)
\* The trees of exactly n nodes, and the sequences of trees of n nodes in all.
TreesOf(n) ==
  IF n = 1
    THEN {Node(h[1], h[2], <<" ">>, sc, <<>>) : h \in NestHeaders, sc \in BOOLEAN}
    ELSE {Node(h[1], h[2], <<" ">>, FALSE, f) : h \in NestHeaders, f \in ForestsOf(n - 1)}

ForestsOf(m) ==
  IF m = 0
    THEN {<<>>}
    ELSE UNION {{<<t>> \o f : t \in TreesOf(k), f \in ForestsOf(m - k)} : k \in 1..m}

NestTrees == UNION {TreesOf(n) : n \in 1..MaxNodes}

AttrTrees ==
  {Node(n, as, g, sc, <<>>) :
     n \in Names, as \in AttrLists(MaxAttrs), g \in Gaps, sc \in BOOLEAN}

Trees == NestTrees \cup AttrTrees

RECURSIVE RenderAttrs(_, _)
RenderAttrs(attrs, gap) ==
  IF attrs = <<>>
    THEN <<>>
    ELSE gap \o Head(attrs)[1] \o <<"=", "\"">> \o Head(attrs)[2] \o <<"\"">>
           \o RenderAttrs(Tail(attrs), gap)

RECURSIVE Render(_)
RECURSIVE RenderAll(_)
RenderOpen(t) == <<"<">> \o t.name \o RenderAttrs(t.attributes, t.gap)

RenderClose(name) == <<"<", "/">> \o name \o <<">">>

Render(t) ==
  IF t.selfClosing
    THEN RenderOpen(t) \o <<"/", ">">>
    ELSE RenderOpen(t) \o <<">">> \o RenderAll(t.children) \o RenderClose(t.name)

RenderAll(ts) == IF ts = <<>> THEN <<>> ELSE Render(Head(ts)) \o RenderAll(Tail(ts))

\* The Element a document tree denotes.
RECURSIVE ToElement(_)
ToElement(t) ==
  [name |-> t.name, attributes |-> t.attributes,
   children |-> [i \in 1..Len(t.children) |-> ToElement(t.children[i])]]

Tails == {<<>>, <<"a">>, <<"<", "a", "/", ">">>}

\* A parent element closed under another name, followed by a tail:
\* <<the input, the input from the close tag on>>.
Mismatched ==
  UNION {{<<RenderOpen(t) \o <<">">> \o RenderAll(t.children) \o RenderClose(m) \o tl,
            RenderClose(m) \o tl>> : m \in Names \ {t.name}, tl \in Tails} :
           t \in {u \in Trees : ~u.selfClosing}}

\* <<the input, the Element it denotes>> of every document.
Documents == {<<Render(t), ToElement(t)>> : t \in Trees}

\* What the parts of the grammar are run on: the short inputs and every
\* position of every document.
DocumentSuffixes == SmallStrings \cup UNION {Suffixes(d[1]) : d \in Documents}

\* What element() is run on: these, the documents cut short and the
\* mismatched documents.
GrammarInputs ==
  DocumentSuffixes
    \cup UNION {Prefixes(d[1]) : d \in Documents}
    \cup {d[1] : d \in Mismatched}

\* Parsers of a string, of one character at most at a time.
Prims == {anyChar} \cup {matchLiteral(lit) : lit \in Lits}

Predicates ==
  {<<"isAlphaNumeric">>, <<"isBlank">>, <<"notDelim", <<"<">>, <<">">>>>,
   <<"nameIs", <<"a">>>>, <<"const", TRUE>>, <<"const", FALSE>>}

Steps == {anyChar, matchLiteral(<<"a">>), matchLiteral(<<" ">>), whitespace}

\* Parsers of a string that may fail after their first half consumed input.
Seqs == {right(a, b) : a \in Steps, b \in Steps} \cup {left(a, b) : a \in Steps, b \in Steps}

Alternatives ==
  {anyChar, matchLiteral(<<>>), matchLiteral(<<"a">>), whitespace, identifier,
   right(anyChar, matchLiteral(<<"a">>)), left(matchLiteral(<<"a">>), anyChar),
   stringBetween(<<"<">>, <<">">>)}

\* The parsers the grammar repeats (lines 119, 125, 136, 178, 212).
GrammarLoopBodies ==
  {alphaNumeric, whitespace, pred(anyChar, <<"notDelim", <<"\"">>, <<"\"">>>>),
   right(space1, attributePair), element}

LoopBodies ==
  GrammarLoopBodies
    \cup {anyChar, matchLiteral(<<"a">>), matchLiteral(<<>>), matchLiteral(<<"a", " ">>),
          right(anyChar, matchLiteral(<<"a">>)), pair(anyChar, whitespace),
          either(matchLiteral(<<"a">>), whitespace)}

GrammarParsers ==
  {identifier, space0, space1, quotedString, attributePair, attributes, elementStart,
   singleElement, openElement, parentElement, element}
    \cup {closeElement(n) : n \in Names}
    \cup {oneOrMore(b) : b \in GrammarLoopBodies}
    \cup {zeroOrMore(b) : b \in GrammarLoopBodies}

Parsers ==
  Prims
    \cup {pred(a, q) : a \in Prims, q \in Predicates}
    \cup {pred(a, q) : a \in Seqs \cup {identifier}, q \in Predicates \ {<<"isAlphaNumeric">>}}
    \cup Seqs
    \cup {pair(a, b) : a \in Steps, b \in Steps}
    \cup {either(a, b) : a \in Alternatives, b \in Alternatives}
    \cup {oneOrMore(b) : b \in LoopBodies}
    \cup {zeroOrMore(b) : b \in LoopBodies}
    \cup {andThen(a, <<"literalOf">>) : a \in Prims \cup Seqs}
    \cup {stringBetween(<<"<">>, <<">">>)}
    \cup GrammarParsers

InputsOf(p) ==
  IF p = element
    THEN GrammarInputs
    ELSE IF p \in GrammarParsers THEN DocumentSuffixes ELSE SmallStrings

-----------------------------------------------------------------------------
(* The state machine: runParser(parser, input), the loops step by step *)

noResult == [type |-> "Pending", value |-> <<>>]

\* Before a call nothing is chosen: no parser has been run on any input.
Init ==
  /\ parser = <<"none">>
  /\ input = <<>>
  /\ result = noResult
  /\ pc = "idle"
  /\ next = <<>>
  /\ results = <<>>

\* The caller hands a parser and an input to runParser.
Start ==
  /\ pc = "idle"
  /\ parser' \in Parsers
  /\ input' \in InputsOf(parser')
  /\ pc' = "ready"
  /\ UNCHANGED <<result, next, results>>

\* runParser on a parser that is not a repetition: one call, to completion.
Call ==
  /\ pc = "ready"
  /\ result' = runParser(parser, input)
  /\ pc' = "done"
  /\ UNCHANGED <<parser, input, next, results>>

RunMap ==
  /\ parser[1] = "map"
  /\ Call

RunPair ==
  /\ parser[1] = "pair"
  /\ Call

RunAnyChar ==
  /\ parser[1] = "anyChar"
  /\ Call

RunPred ==
  /\ parser[1] = "pred"
  /\ Call

RunMatchLiteral ==
  /\ parser[1] = "matchLiteral"
  /\ Call

RunEither ==
  /\ parser[1] = "either"
  /\ Call

RunAndThen ==
  /\ parser[1] = "andThen"
  /\ Call

RunElement ==
  /\ parser[1] = "element"
  /\ Call

\* oneOrMore whose first failure is reported at its own input.
OneOrMoreEnterRewinds ==
  /\ pc = "ready"
  /\ parser[1] = "oneOrMore"
  /\ LET res == parse(parser[2], input)
     IN  IF isFailure(res)
           THEN /\ result' = failure(input)
                /\ pc' = "done"
                /\ UNCHANGED <<next, results>>
           ELSE /\ next' = res.value[1]
                /\ results' = <<res.value[2]>>
                /\ pc' = "loop"
                /\ UNCHANGED result
  /\ UNCHANGED <<parser, input>>

\* oneOrMore, lines 52-57: the first application.
OneOrMoreEnter ==
  /\ pc = "ready"
  /\ parser[1] = "oneOrMore"
  /\ LET res == parse(parser[2], input)
     IN  IF isFailure(res)
           THEN /\ result' = res
                /\ pc' = "done"
                /\ UNCHANGED <<next, results>>
           ELSE /\ next' = res.value[1]
                /\ results' = <<res.value[2]>>
                /\ pc' = "loop"
                /\ UNCHANGED result
  /\ UNCHANGED <<parser, input>>

\* The most iterations a loop over input of this length is followed for.
IterCap(inp) == Len(inp) + 1

\* zeroOrMore, lines 72-73.
ZeroOrMoreEnter ==
  /\ pc = "ready"
  /\ parser[1] = "zeroOrMore"
  /\ next' = input
  /\ results' = <<>>
  /\ pc' = "loop"
  /\ UNCHANGED <<parser, input, result>>

\* The iteration that collects the value and leaves next where it was.
LoopIterStays ==
  /\ pc = "loop"
  /\ Len(results) < IterCap(input)
  /\ LET parsed == parse(parser[2], next)
     IN  /\ isSuccess(parsed)
         /\ results' = Append(results, parsed.value[2])
  /\ UNCHANGED <<parser, input, result, pc, next>>

\* One iteration of while (true) whose application succeeds (lines 59-62, 75-78).
LoopIter ==
  /\ pc = "loop"
  /\ Len(results) < IterCap(input)
  /\ LET parsed == parse(parser[2], next)
     IN  /\ isSuccess(parsed)
         /\ next' = parsed.value[1]
         /\ results' = Append(results, parsed.value[2])
  /\ UNCHANGED <<parser, input, result, pc>>

\* The break that returns the failed application's error as remaining input.
LoopBreakAtError ==
  /\ pc = "loop"
  /\ LET parsed == parse(parser[2], next)
     IN  /\ ~isSuccess(parsed)
         /\ result' = success(<<parsed.value, results>>)
  /\ pc' = "done"
  /\ UNCHANGED <<parser, input, next, results>>

\* The iteration whose application fails: break, and return (lines 63-67, 79-83).
LoopBreak ==
  /\ pc = "loop"
  /\ LET parsed == parse(parser[2], next)
     IN  /\ ~isSuccess(parsed)
         /\ result' = success(<<next, results>>)
  /\ pc' = "done"
  /\ UNCHANGED <<parser, input, next, results>>

Next ==
  \/ Start
  \/ RunMap
  \/ RunPair
  \/ RunAnyChar
  \/ RunPred
  \/ RunMatchLiteral
  \/ RunEither
  \/ RunAndThen
  \/ RunElement
  \/ OneOrMoreEnter
  \/ ZeroOrMoreEnter
  \/ LoopIter
  \/ LoopBreak

Spec == Init /\ [][Next]_vars

-----------------------------------------------------------------------------
(* Properties *)

Done(kind) == pc = "done" /\ parser[1] = kind

\* Equality of two results, the variant first: the payloads of a Failure (a
\* string) and of a Success (a pair) are never compared with each other.
Same(r1, r2) == r1.type = r2.type /\ r1.value = r2.value

Consumed(r, inp) == Len(inp) - Len(r.value[1])

\* Where repeated application of p from inp stands after it has produced
\* exactly the values vs, one after the other: <<"at", position>>, or <<"no">>
\* when some application fails or produces another value.
RECURSIVE After(_, _, _)
After(p, inp, vs) ==
  IF vs = <<>>
    THEN <<"at", inp>>
    ELSE LET r == parse(p, inp)
         IN  IF isSuccess(r) /\ r.value[2] = Head(vs)
               THEN After(p, r.value[1], Tail(vs))
               ELSE <<"no">>

\* p consumes at least one character whenever it succeeds from a position of inp.
Consuming(p, inp) ==
  \A s \in Suffixes(inp) :
    LET r == parse(p, s) IN isSuccess(r) => Len(r.value[1]) < Len(s)

\* The repetition has returned the values of p's successive applications and
\* the position at which p first failed.
Repeated(p, inp, res) ==
  /\ isSuccess(res)
  /\ After(p, inp, res.value[2]) = <<"at", res.value[1]>>
  /\ isFailure(parse(p, res.value[1]))

\* The step by step run of a repetition returns what the call made inside
\* another parser returns.
StepwiseAgrees ==
  /\ Done("zeroOrMore") => Same(result, parseZeroOrMore(parser[2], input))
  /\ Done("oneOrMore") => Same(result, parseOneOrMore(parser[2], input))

\* C1: either(a, b) returns a's result when a succeeds, and otherwise b's
\* result on the original input, never on a remainder a reached before failing;
\* element() is either(singleElement, parentElement).
C1_EitherFirstSuccessElseSecondOnOriginal ==
  /\ Done("either") =>
       LET a == parse(parser[2], input)
       IN  IF isSuccess(a)
             THEN Same(result, a)
             ELSE Same(result, parse(parser[3], input))
  /\ Done("element") =>
       LET a == parse(singleElement, input)
       IN  IF isSuccess(a)
             THEN Same(result, a)
             ELSE Same(result, parse(parentElement, input))

\* a failed after its first half consumed input, and b succeeded on the
\* original input with a result it would not have had on that remainder.
C1_Witness ==
  /\ Done("either")
  /\ LET a == parse(parser[2], input)
     IN  /\ isFailure(a)
         /\ a.value # input
         /\ isSuccess(result)
         /\ ~Same(parse(parser[3], a.value), result)

\* C2: pred(p, q) returns p's failure unchanged, p's success unchanged when q
\* accepts the value, and Failure(the input given to pred) when q rejects it,
\* however many characters p consumed.
C2_PredRejectsWithOriginalInput ==
  Done("pred") =>
    LET r == parse(parser[2], input)
    IN  IF isFailure(r)
          THEN Same(result, r)
          ELSE IF applyPredicate(parser[3], r.value[2])
                 THEN Same(result, r)
                 ELSE Same(result, failure(input))

C2_Witness ==
  /\ Done("pred")
  /\ LET r == parse(parser[2], input)
     IN  /\ isSuccess(r)
         /\ Consumed(r, input) >= 2
         /\ ~applyPredicate(parser[3], r.value[2])
         /\ Same(result, failure(input))

\* C3: for p that consumes at least one character on success, zeroOrMore(p)
\* returns, and returns Success: the values of p's successive applications in
\* order and the input at which p first failed (the input itself and no
\* values when the first application fails), whatever that failing application
\* consumed inside.
C3_ZeroOrMoreAlwaysSucceeds ==
  (parser[1] = "zeroOrMore" /\ Consuming(parser[2], input)) =>
    /\ pc = "loop" => Len(results) < IterCap(input)
    /\ pc = "done" =>
         /\ Repeated(parser[2], input, result)
         /\ isFailure(parse(parser[2], input)) => Same(result, success(<<input, <<>>>>))

\* Two values were collected, and the application that failed did so after
\* consuming input: its error is not the remaining input returned.
C3_Witness ==
  /\ Done("zeroOrMore")
  /\ Consuming(parser[2], input)
  /\ Len(result.value[2]) >= 2
  /\ parse(parser[2], result.value[1]).value # result.value[1]

Sequenced(a, b, inp, res, select) ==
  LET ra == parse(a, inp)
  IN  IF isFailure(ra)
        THEN Same(res, ra)
        ELSE LET rb == parse(b, ra.value[1])
             IN  IF isFailure(rb)
                   THEN Same(res, rb)
                   ELSE /\ isSuccess(res)
                        /\ res.value[1] = rb.value[1]
                        /\ res.value[2] =
                             CASE select = "both" -> <<ra.value[2], rb.value[2]>>
                               [] select = "fst" -> ra.value[2]
                               [] select = "snd" -> rb.value[2]

IsLeftOrRight(p) ==
  /\ p[1] = "map"
  /\ p[2][1] = "pair"
  /\ p[3] \in {<<"fst">>, <<"snd">>}

\* C5: pair(a, b), and left and right built on it, run a on the input and b on
\* a's remaining input; a's Failure or else b's Failure is returned unchanged
\* (no rollback), and only when both succeed is Success returned, with b's
\* remaining input and the values of a and b.
C5_PairPropagatesFirstFailure ==
  /\ Done("pair") => Sequenced(parser[2], parser[3], input, result, "both")
  /\ (pc = "done" /\ IsLeftOrRight(parser)) =>
       Sequenced(parser[2][2], parser[2][3], input, result, parser[3][1])

\* a consumed input, b failed, and the error is b's position, not the input.
C5_Witness ==
  /\ Done("pair")
  /\ isSuccess(parse(parser[2], input))
  /\ isFailure(result)
  /\ result.value # input
  /\ result.value = parse(parser[2], input).value[1]

\* The parsers whose failure is raised where they were invoked: anyChar,
\* matchLiteral, and pred, map, oneOrMore, zeroOrMore and either over them.
RECURSIVE FailsInPlace(_)
FailsInPlace(p) ==
  CASE p[1] \in {"anyChar", "matchLiteral", "zeroOrMore"} -> TRUE
    [] p[1] \in {"pred", "map", "oneOrMore"} -> FailsInPlace(p[2])
    [] p[1] = "either" -> FailsInPlace(p[3])
    [] OTHER -> FALSE

\* C6, as claimed: whatever the parser, a Failure carries the input the parser
\* was run on.
C6_FailureIsTheInput ==
  (pc = "done" /\ isFailure(result)) => result.value = input

\* C6, amended: a Failure carries a suffix of the input, the position at which
\* the failing parser inside was invoked; it is the input itself for anyChar,
\* matchLiteral and pred, map, oneOrMore and either over them.
C6_FailureIsASuffixOfTheInput ==
  (pc = "done" /\ isFailure(result)) =>
    /\ result.value \in Suffixes(input)
    /\ FailsInPlace(parser) => result.value = input

\* A pair whose second parser failed after the first consumed input.
C6_Witness ==
  /\ pc = "done"
  /\ parser[1] \in {"pair", "andThen", "element"}
  /\ isFailure(result)
  /\ result.value # input
  /\ result.value \in Suffixes(input)

\* C7: on a well-formed element, element() returns Success with nothing
\* remaining and the Element of that document: its name, its attributes in
\* document order and its children in document order.
C7_ElementParsesWellFormedDocuments ==
  Done("element") =>
    \A d \in Documents : input = d[1] => Same(result, success(<<<<>>, d[2]>>))

\* A parent element with two children, the first under another name.
C7_Witness ==
  /\ Done("element")
  /\ \E d \in Documents : input = d[1]
  /\ isSuccess(result)
  /\ Len(result.value[2].children) = 2
  /\ result.value[2].children[1].name # result.value[2].name
  /\ result.value[2].attributes # <<>>

\* C8: when the outermost open tag is closed under another name, after any
\* well-formed children, element() fails with the input from that close tag on.
C8_MismatchedCloseFailsAtCloseTag ==
  Done("element") =>
    \A d \in Mismatched : input = d[1] => Same(result, failure(d[2]))

\* A mismatched document with a child between the open and the close tag.
C8_Witness ==
  /\ Done("element")
  /\ \E d \in Mismatched :
       /\ input = d[1]
       /\ Len(input) - Len(d[2]) >= 8
       /\ d[2] # SubSeq(d[2], 1, 4)
       /\ Same(result, failure(d[2]))

\* The parsers of the markup grammar: element() and what it is made of.
InGrammar == parser \in GrammarParsers

\* Some action of Next is enabled: the guards of the actions that run a call.
CanStep ==
  \/ /\ pc = "ready"
     /\ parser[1] \in {"map", "pair", "anyChar", "pred", "matchLiteral", "either",
                       "andThen", "element", "oneOrMore", "zeroOrMore"}
  \/ /\ pc = "loop"
     /\ isSuccess(parse(parser[2], next)) => Len(results) < IterCap(input)

\* C9: runParser(element(), s) terminates: a run of a grammar parser that has
\* not returned can always take its next step; every iteration of a loop of
\* the grammar strictly shortens the remaining input, so that the values
\* collected and the remaining input never exceed the input; and
\* parentElement reaches its children, and with them the recursive call of
\* element(), only after openElement has consumed input.
C9_GrammarTerminates ==
  InGrammar =>
    /\ pc = "done" \/ CanStep
    /\ pc = "loop" =>
         /\ Len(results) + Len(next) <= Len(input)
         /\ LET parsed == parse(parser[2], next)
            IN  isSuccess(parsed) => Len(parsed.value[1]) < Len(next)
    /\ parser = element =>
         \A s \in Suffixes(input) :
           LET r == parse(openElement, s)
           IN  isSuccess(r) => Len(r.value[1]) < Len(s)

\* The loop over element() has parsed two elements and returned.
C9_Witness ==
  /\ parser = zeroOrMore(element)
  /\ pc = "done"
  /\ Len(result.value[2]) >= 2
  /\ result.value[1] # <<>>

\* The supplied primitives: anyChar, matchLiteral and pred over them.
RECURSIVE IsPrimitive(_)
IsPrimitive(p) ==
  CASE p[1] \in {"anyChar", "matchLiteral"} -> TRUE
    [] p[1] = "pred" -> IsPrimitive(p[2])
    [] OTHER -> FALSE

\* The number of characters a primitive consumes when it succeeds.
RECURSIVE Width(_)
Width(p) ==
  CASE p[1] = "anyChar" -> 1
    [] p[1] = "matchLiteral" -> Len(p[2])
    [] p[1] = "pred" -> Width(p[2])

\* C10, as claimed: every Success of a primitive leaves a remaining input
\* strictly shorter than the input.
C10_PrimitivesAlwaysConsume ==
  (pc = "done" /\ IsPrimitive(parser) /\ isSuccess(result)) =>
    Len(result.value[1]) < Len(input)

\* C10, amended: a primitive that succeeds consumes one character (anyChar)
\* or the length of the literal (matchLiteral), so it consumes input unless
\* the literal is empty, and a repetition of a primitive with a non-empty
\* literal has consumed that much for every value collected, while a
\* repetition of matchLiteral("") that has collected a value stands where it
\* started, before an application that succeeds again.
C10_PrimitivesConsumeTheirWidth ==
  /\ (pc = "done" /\ IsPrimitive(parser) /\ isSuccess(result)) =>
       /\ Consumed(result, input) = Width(parser)
       /\ Width(parser) > 0 => Len(result.value[1]) < Len(input)
  /\ (pc = "loop" /\ IsPrimitive(parser[2]) /\ Width(parser[2]) > 0) =>
       /\ Len(results) * Width(parser[2]) + Len(next) = Len(input)
       /\ Len(results) < IterCap(input)
  /\ (pc = "loop" /\ IsPrimitive(parser[2]) /\ Width(parser[2]) = 0 /\ results # <<>>) =>
       /\ next = input
       /\ isSuccess(parse(parser[2], next))

\* matchLiteral("") has succeeded on a non-empty input and consumed nothing.
C10_Witness ==
  /\ Done("matchLiteral")
  /\ parser[2] = <<>>
  /\ input # <<>>
  /\ Same(result, success(<<input, <<>>>>))

====
